---------------------------- MODULE Spec2Model ----------------------------
(***************************************************************************)
(* A model of the teaching examples of the repository: the Animal classes  *)
(* of OOP/Encapsulation.ts and OOP/Inheritance.ts, the shapes and birds of *)
(* SOLID/Open_Closed.ts, the injected consumers of                         *)
(* SOLID/DependencyInversionPrinciple.ts and OOP/Polymorphism.ts, and the  *)
(* CoffeeMachine of the abstraction example.                               *)
(*                                                                         *)
(* The examples share no state, so each has its own variables and its own  *)
(* specification (AnimalSpec, ShapeSpec, ...); Spec is their composition.  *)
(***************************************************************************)
EXTENDS Integers, Sequences, FiniteSets, TLC

VARIABLES
    plain,      \* the Animal object of Encapsulation.ts
    audited,    \* the Animal object of Inheritance.ts (extends Auditable)
    console,    \* the last line makeAnimalCall wrote with console.log
    animalOp,   \* the last operation performed on plain or audited
    shapes,     \* the array of Shape objects handed to calculateAreaOfShapes
    shapeOp,    \* the last call on a shape or on the array, and what it returned
    persons,         \* the Person objects constructed so far
    loggerConsumers, \* the LoggerConsumer objects constructed so far
    providerOp,      \* the last operation on a consumer, what it invoked and wrote
    birdCalls,  \* the calls made on birds, each with what its caller saw
    machine,    \* the CoffeeMachine object
    calls       \* the calls of MakeCoffee: where each is, and what it has logged

animalVars == <<plain, audited, console, animalOp>>
shapeVars == <<shapes, shapeOp>>

providerVars == <<persons, loggerConsumers, providerOp>>

birdVars == <<birdCalls>>

coffeeVars == <<machine, calls>>

vars == <<animalVars, shapeVars, providerVars, birdVars, coffeeVars>>

\* what an action of one example leaves alone: the variables of the others
notAnimalVars == <<shapeVars, providerVars, birdVars, coffeeVars>>
notShapeVars == <<animalVars, providerVars, birdVars, coffeeVars>>
notProviderVars == <<animalVars, shapeVars, birdVars, coffeeVars>>
notBirdVars == <<animalVars, shapeVars, providerVars, coffeeVars>>
notCoffeeVars == <<animalVars, shapeVars, providerVars, birdVars>>

(***************************************************************************)
(* Bounds of the model.                                                    *)
(***************************************************************************)
\* the audit counters of Inheritance.ts grow without limit; reads and writes
\* are performed while the counter is below this bound
MaxAudit == 3
\* the dimensions of a shape are drawn from 0 .. MaxDim
MaxDim == 4
\* the longest array of shapes
MaxShapes == 2
\* the significant bits kept of a number (53 in a JavaScript number)
MantissaBits == 6
\* the number of Person objects, and of LoggerConsumer objects, constructed
MaxConsumers == 2
\* the number of calls made on birds
MaxBirdCalls == 3
\* the number of calls of MakeCoffee made on the machine
MaxCalls == 2

(***************************************************************************)
(*                 OOP/Encapsulation.ts, OOP/Inheritance.ts                *)
(***************************************************************************)
\* class Dog / Whale / Snake extends Animal
AnimalKind == {"Dog", "Whale", "Snake"}

\* get animalName() of Dog, Whale, Snake
animalName(kind) == kind

\* get call() of Dog, Whale, Snake
call(kind) ==
    CASE kind = "Dog"   -> "barking"
      [] kind = "Whale" -> "clicking"
      [] kind = "Snake" -> "hissing"

\* the three activity members that have a getter and a setter
Flag == {"isSleeping", "isEating", "isPlaying"}

\* makeAnimalCall(action): the line written with console.log, kept as the
\* three interpolated parts of
\*   `The ${this.animalName} makes a ${this.call} sound as it ${action}`
makeAnimalCall(self, action) == <<animalName(self.kind), call(self.kind), action>>

\* Encapsulation.ts: constructor of Animal, run by new Dog() / Whale() / Snake()
EncAnimal_constructor(kind) ==
    [kind |-> kind, isEating |-> FALSE, isPlaying |-> FALSE, isSleeping |-> FALSE]

\* Encapsulation.ts: set isSleeping(state)
EncAnimal_set_isSleeping(self, state) ==
    [self |-> [self EXCEPT !.isSleeping = state, !.isEating = FALSE, !.isPlaying = FALSE],
     log  |-> makeAnimalCall(self, IF state = FALSE THEN "wakes up" ELSE "goes to sleep")]

\* a setter that forgets to clear the flag that was set before
EncAnimal_set_isEating_KeepsOthers(self, state) ==
    [self |-> [self EXCEPT !.isEating = state],
     log  |-> makeAnimalCall(self, IF state = FALSE THEN "stops eating" ELSE "starts eating")]

\* Encapsulation.ts: set isEating(state)
EncAnimal_set_isEating(self, state) ==
    [self |-> [self EXCEPT !.isSleeping = FALSE, !.isEating = state, !.isPlaying = FALSE],
     log  |-> makeAnimalCall(self, IF state = FALSE THEN "stops eating" ELSE "starts eating")]

\* Encapsulation.ts: set isPlaying(state)
EncAnimal_set_isPlaying(self, state) ==
    [self |-> [self EXCEPT !.isSleeping = FALSE, !.isEating = FALSE, !.isPlaying = state],
     log  |-> makeAnimalCall(self, IF state = FALSE THEN "Starts playing" ELSE "starts playing")]

\* Encapsulation.ts: the setter named by the assigned member
EncAnimal_set(self, flag, state) ==
    CASE flag = "isSleeping" -> EncAnimal_set_isSleeping(self, state)
      [] flag = "isEating"   -> EncAnimal_set_isEating(self, state)
      [] flag = "isPlaying"  -> EncAnimal_set_isPlaying(self, state)

\* Encapsulation.ts: get isSleeping() / isPlaying() / isEating()
EncAnimal_get(self, flag) ==
    CASE flag = "isSleeping" -> self.isSleeping
      [] flag = "isPlaying"  -> self.isPlaying
      [] flag = "isEating"   -> self.isEating

\* Inheritance.ts: Auditable._incrementRead()
Auditable_incrementRead(self) ==
    [self EXCEPT !.numberOfTimesRead = @ + 1]

\* an _incrementWrite that counts a read
Auditable_incrementWrite_CountsRead(self) ==
    [self EXCEPT !.numberOfTimesRead = @ + 1]

\* Inheritance.ts: Auditable._incrementWrite()
Auditable_incrementWrite(self) ==
    [self EXCEPT !.numberOfTimesWritten = @ + 1]

\* Inheritance.ts: constructor of Animal: super() (Auditable), then the fields
InhAnimal_constructor(kind) ==
    [kind |-> kind, numberOfTimesRead |-> 0, numberOfTimesWritten |-> 0,
     isEating |-> FALSE, isPlaying |-> FALSE, isSleeping |-> FALSE, isAlive |-> TRUE]

\* a setter under which an animal put to sleep is no longer alive
InhAnimal_set_isSleeping_Dies(self, state) ==
    LET s1 == Auditable_incrementWrite(self) IN
    [self |-> [s1 EXCEPT !.isSleeping = state, !.isEating = FALSE, !.isPlaying = FALSE,
                         !.isAlive = ~state],
     log  |-> makeAnimalCall(s1, IF state = FALSE THEN "wakes up" ELSE "goes to sleep")]

\* Inheritance.ts: set isSleeping(state)
InhAnimal_set_isSleeping(self, state) ==
    LET s1 == Auditable_incrementWrite(self) IN
    [self |-> [s1 EXCEPT !.isSleeping = state, !.isEating = FALSE, !.isPlaying = FALSE],
     log  |-> makeAnimalCall(s1, IF state = FALSE THEN "wakes up" ELSE "goes to sleep")]

\* a setter that clears the other flags only when it is given true
InhAnimal_set_isEating_OnlyWhenTrue(self, state) ==
    LET s1 == Auditable_incrementWrite(self) IN
    [self |-> IF state
              THEN [s1 EXCEPT !.isSleeping = FALSE, !.isEating = TRUE, !.isPlaying = FALSE]
              ELSE [s1 EXCEPT !.isEating = FALSE],
     log  |-> makeAnimalCall(s1, IF state = FALSE THEN "stops eating" ELSE "starts eating")]

\* Inheritance.ts: set isEating(state)
InhAnimal_set_isEating(self, state) ==
    LET s1 == Auditable_incrementWrite(self) IN
    [self |-> [s1 EXCEPT !.isSleeping = FALSE, !.isEating = state, !.isPlaying = FALSE],
     log  |-> makeAnimalCall(s1, IF state = FALSE THEN "stops eating" ELSE "starts eating")]

\* a setter that stores the negation of its argument
InhAnimal_set_isPlaying_Negated(self, state) ==
    LET s1 == Auditable_incrementWrite(self) IN
    [self |-> [s1 EXCEPT !.isSleeping = FALSE, !.isEating = FALSE, !.isPlaying = ~state],
     log  |-> makeAnimalCall(s1, IF state = FALSE THEN "Starts playing" ELSE "starts playing")]

\* Inheritance.ts: set isPlaying(state)
InhAnimal_set_isPlaying(self, state) ==
    LET s1 == Auditable_incrementWrite(self) IN
    [self |-> [s1 EXCEPT !.isSleeping = FALSE, !.isEating = FALSE, !.isPlaying = state],
     log  |-> makeAnimalCall(s1, IF state = FALSE THEN "Starts playing" ELSE "starts playing")]

\* Inheritance.ts: the setter named by the assigned member
InhAnimal_set(self, flag, state) ==
    CASE flag = "isSleeping" -> InhAnimal_set_isSleeping(self, state)
      [] flag = "isEating"   -> InhAnimal_set_isEating(self, state)
      [] flag = "isPlaying"  -> InhAnimal_set_isPlaying(self, state)

\* the members of the audited Animal whose getter counts a read
AuditedGetter == Flag \cup {"isAlive"}

\* a getter that clears the flag it has read
InhAnimal_get_Clears(self, member) ==
    LET s1 == Auditable_incrementRead(self) IN
    [self |-> CASE member = "isSleeping" -> [s1 EXCEPT !.isSleeping = FALSE]
                [] member = "isPlaying"  -> [s1 EXCEPT !.isPlaying = FALSE]
                [] member = "isEating"   -> [s1 EXCEPT !.isEating = FALSE]
                [] member = "isAlive"    -> s1,
     ret  |-> CASE member = "isSleeping" -> s1.isSleeping
                [] member = "isPlaying"  -> s1.isPlaying
                [] member = "isEating"   -> s1.isEating
                [] member = "isAlive"    -> s1.isAlive]

\* Inheritance.ts: get isSleeping() / isPlaying() / isEating() / isAlive()
InhAnimal_get(self, member) ==
    LET s1 == Auditable_incrementRead(self) IN
    [self |-> s1,
     ret  |-> CASE member = "isSleeping" -> s1.isSleeping
                [] member = "isPlaying"  -> s1.isPlaying
                [] member = "isEating"   -> s1.isEating
                [] member = "isAlive"    -> s1.isAlive]

\* Inheritance.ts: get numberOfTimesRead() / numberOfTimesWritten()
Auditable_get(self, member) ==
    CASE member = "numberOfTimesRead"    -> self.numberOfTimesRead
      [] member = "numberOfTimesWritten" -> self.numberOfTimesWritten

\* the flags of an Animal object, as a record
FlagsOf(self) ==
    [isSleeping |-> self.isSleeping, isEating |-> self.isEating, isPlaying |-> self.isPlaying]

\* the record of an operation: which object, which operation, on which
\* member, with which argument, the flags before it, what a getter returned,
\* and how many getter reads and setter assignments the audited object has
\* had since its construction, this operation included
OpRecord(target, op, member, arg, pre, ret, num) ==
    [target |-> target, op |-> op, member |-> member, arg |-> arg,
     pre |-> pre, ret |-> ret, num |-> num,
     reads  |-> IF op = "new" /\ target # "plain" THEN 0
                ELSE IF target = "audited" /\ op = "get" /\ member \in AuditedGetter
                     THEN animalOp.reads + 1
                     ELSE animalOp.reads,
     writes |-> IF op = "new" /\ target # "plain" THEN 0
                ELSE IF target # "plain" /\ op = "set"
                     THEN animalOp.writes + 1
                     ELSE animalOp.writes]

NoLine == <<>>

AnimalInit ==
    /\ \E k \in AnimalKind : plain = EncAnimal_constructor(k)
    /\ \E k \in AnimalKind : audited = InhAnimal_constructor(k)
    /\ console = NoLine
    /\ animalOp = OpRecord("both", "new", "constructor", FALSE,
                           FlagsOf(EncAnimal_constructor("Dog")), FALSE, 0)

\* const dog = new Dog() (Whale, Snake) in Encapsulation.ts
EncNew(k) ==
    /\ plain' = EncAnimal_constructor(k)
    /\ animalOp' = OpRecord("plain", "new", "constructor", FALSE, FlagsOf(plain), FALSE, 0)
    /\ UNCHANGED <<audited, console, notAnimalVars>>

\* dog.isEating = true, whale.isSleeping = true, ... in Encapsulation.ts
EncSet(flag, state) ==
    LET r == EncAnimal_set(plain, flag, state) IN
    /\ plain' = r.self
    /\ console' = r.log
    /\ animalOp' = OpRecord("plain", "set", flag, state, FlagsOf(plain), FALSE, 0)
    /\ UNCHANGED <<audited, notAnimalVars>>

\* a read of dog.isEating, ... in Encapsulation.ts
EncGet(flag) ==
    /\ animalOp' = OpRecord("plain", "get", flag, FALSE, FlagsOf(plain),
                            EncAnimal_get(plain, flag), 0)
    /\ UNCHANGED <<plain, audited, console, notAnimalVars>>

\* const dog: Dog = new Dog() (Whale, Snake) in Inheritance.ts
InhNew(k) ==
    /\ audited' = InhAnimal_constructor(k)
    /\ animalOp' = OpRecord("audited", "new", "constructor", FALSE, FlagsOf(audited), FALSE, 0)
    /\ UNCHANGED <<plain, console, notAnimalVars>>

\* dog.isEating = true, ... in Inheritance.ts
InhSet(flag, state) ==
    LET r == InhAnimal_set(audited, flag, state) IN
    /\ audited.numberOfTimesWritten < MaxAudit
    /\ audited' = r.self
    /\ console' = r.log
    /\ animalOp' = OpRecord("audited", "set", flag, state, FlagsOf(audited), FALSE, 0)
    /\ UNCHANGED <<plain, notAnimalVars>>

\* a read of dog.isEating, dog.isAlive, ... in Inheritance.ts
InhGet(member) ==
    LET r == InhAnimal_get(audited, member) IN
    /\ audited.numberOfTimesRead < MaxAudit
    /\ audited' = r.self
    /\ animalOp' = OpRecord("audited", "get", member, FALSE, FlagsOf(audited), r.ret, 0)
    /\ UNCHANGED <<plain, console, notAnimalVars>>

\* a read of dog.numberOfTimesRead or dog.numberOfTimesWritten in Inheritance.ts
InhGetCounter(member) ==
    /\ animalOp' = OpRecord("audited", "get", member, FALSE, FlagsOf(audited), FALSE,
                            Auditable_get(audited, member))
    /\ UNCHANGED <<plain, audited, console, notAnimalVars>>

AnimalNext ==
    \/ \E k \in AnimalKind : EncNew(k)
    \/ \E f \in Flag, b \in BOOLEAN : EncSet(f, b)
    \/ \E f \in Flag : EncGet(f)
    \/ \E k \in AnimalKind : InhNew(k)
    \/ \E f \in Flag, b \in BOOLEAN : InhSet(f, b)
    \/ \E m \in AuditedGetter : InhGet(m)
    \/ \E m \in {"numberOfTimesRead", "numberOfTimesWritten"} : InhGetCounter(m)


\* the same assignment made in both files: dog.isEating = true, ... in
\* Encapsulation.ts and then in Inheritance.ts
SetBoth(flag, state) ==
    LET p == EncAnimal_set(plain, flag, state)
        a == InhAnimal_set(audited, flag, state)
    IN  /\ audited.numberOfTimesWritten < MaxAudit
        /\ plain' = p.self
        /\ audited' = a.self
        /\ console' = a.log
        /\ animalOp' = OpRecord("both", "set", flag, state, FlagsOf(plain), FALSE, 0)
        /\ UNCHANGED notAnimalVars

\* the two objects given the same assignments, and read independently
PairNext ==
    \/ \E f \in Flag, b \in BOOLEAN : SetBoth(f, b)
    \/ \E f \in Flag : EncGet(f)
    \/ \E m \in AuditedGetter : InhGet(m)
    \/ \E m \in {"numberOfTimesRead", "numberOfTimesWritten"} : InhGetCounter(m)

(***************************************************************************)
(*                 SOLID/Open_Closed.ts: the Shape interface               *)
(*                                                                         *)
(* A number is kept as [n, pi], standing for n + pi * Math.PI, so that     *)
(* Math.PI stays symbolic.  A JavaScript number is a binary floating-point *)
(* value of 53 significant bits, and the result of every + and * is        *)
(* rounded to the nearest such value, ties to the even one; the model      *)
(* keeps MantissaBits significant bits of n and rounds in the same way.    *)
(* The multiple of Math.PI is kept exact.                                  *)
(***************************************************************************)
\* a number without a Math.PI part
Num(n) == [n |-> n, pi |-> 0]

Pow2(k) == 2^k

\* the exponent of the unit in the last place of x >= 0: the least e with
\* x < 2^(MantissaBits + e)
RECURSIVE UlpExponent(_, _)
UlpExponent(x, e) ==
    IF x < Pow2(MantissaBits + e) THEN e ELSE UlpExponent(x, e + 1)

\* the floating-point value nearest to the integer x >= 0, ties to even; an
\* integer below 2^MantissaBits is such a value
Round(x) ==
    IF x < Pow2(MantissaBits) THEN x
    ELSE LET ulp == Pow2(UlpExponent(x, 0))
             q   == x \div ulp
             r   == x % ulp
         IN  IF 2 * r > ulp \/ (2 * r = ulp /\ q % 2 = 1)
             THEN (q + 1) * ulp
             ELSE q * ulp

\* a * b for two numbers without a Math.PI part
Times(a, b) == Num(Round(a * b))

\* a * Math.PI
TimesPI(a) == [n |-> 0, pi |-> a]

\* a + b
Plus(a, b) == [n |-> Round(a.n + b.n), pi |-> a.pi + b.pi]

Dim == 0 .. MaxDim

\* new Rectangle(width, height), new Circle(radius), new Square(edgeLength)
Rectangle(width, height) == [class |-> "Rectangle", width |-> width, height |-> height]
Circle(radius) == [class |-> "Circle", radius |-> radius]
Square(edgeLength) == [class |-> "Square", edgeLength |-> edgeLength]

ShapeObject ==
    {Rectangle(w, h) : w \in Dim, h \in Dim}
        \cup {Circle(r) : r \in Dim} \cup {Square(e) : e \in Dim}

\* a calculateArea that adds the sides
Rectangle_calculateArea_Sum(self) ==
    [self |-> self, ret |-> Num(self.width + self.height)]

\* Rectangle.calculateArea(): the object after the call and the value returned
Rectangle_calculateArea(self) ==
    [self |-> self, ret |-> Times(self.width, self.height)]

\* Circle.calculateArea()
Circle_calculateArea(self) ==
    [self |-> self, ret |-> TimesPI(self.radius)]

\* a calculateArea that leaves its result in the shape
Square_calculateArea_Stores(self) ==
    [self |-> [self EXCEPT !.edgeLength = self.edgeLength * self.edgeLength],
     ret  |-> Times(self.edgeLength, self.edgeLength)]

\* Square.calculateArea()
Square_calculateArea(self) ==
    [self |-> self, ret |-> Times(self.edgeLength, self.edgeLength)]

\* shape.calculateArea(): the method of the object's class
Shape_calculateArea(self) ==
    CASE self.class = "Rectangle" -> Rectangle_calculateArea(self)
      [] self.class = "Circle"    -> Circle_calculateArea(self)
      [] self.class = "Square"    -> Square_calculateArea(self)

\* shapes.reduce((currentTotal, shape) => currentTotal + shape.calculateArea(), 0)
\* from element i on; the array is threaded through the calls
RECURSIVE ReduceAreas(_, _, _)
ReduceAreas(arr, i, currentTotal) ==
    IF i > Len(arr) THEN [shapes |-> arr, ret |-> currentTotal]
    ELSE LET r == Shape_calculateArea(arr[i]) IN
         ReduceAreas([arr EXCEPT ![i] = r.self], i + 1, Plus(currentTotal, r.ret))

\* calculateAreaOfShapes(shapes: Shape[])
calculateAreaOfShapes(arr) == ReduceAreas(arr, 1, Num(0))

\* the callback of the instanceof version without the branch for Square
calculateAreaOfShapes_instanceof_callback_NoSquare(currentTotal, shape) ==
    IF shape.class = "Rectangle"
    THEN Plus(currentTotal, Times(shape.width, shape.height))
    ELSE IF shape.class = "Circle"
    THEN Plus(currentTotal, TimesPI(shape.radius))
    ELSE currentTotal

\* the callback given to reduce by the version that branches on instanceof
calculateAreaOfShapes_instanceof_callback(currentTotal, shape) ==
    IF shape.class = "Rectangle"
    THEN Plus(currentTotal, Times(shape.width, shape.height))
    ELSE IF shape.class = "Circle"
    THEN Plus(currentTotal, TimesPI(shape.radius))
    ELSE IF shape.class = "Square"
    THEN Plus(currentTotal, Times(shape.edgeLength, shape.edgeLength))
    ELSE currentTotal

\* shapes.reduce(callback, currentTotal) of that version, from element i on
RECURSIVE calculateAreaOfShapes_instanceof_reduce(_, _, _)
calculateAreaOfShapes_instanceof_reduce(arr, i, currentTotal) ==
    IF i > Len(arr) THEN currentTotal
    ELSE calculateAreaOfShapes_instanceof_reduce(
             arr, i + 1, calculateAreaOfShapes_instanceof_callback(currentTotal, arr[i]))

\* calculateAreaOfShapes(shapes: (Rectangle | Circle | Square)[]); the callback
\* reads the fields of the shapes and writes nothing
calculateAreaOfShapes_instanceof(arr) ==
    [shapes |-> arr, ret |-> calculateAreaOfShapes_instanceof_reduce(arr, 1, Num(0))]

\* the arrays of at most n shapes
RECURSIVE ShapeArrays(_)
ShapeArrays(n) ==
    IF n = 0 THEN {<<>>}
    ELSE LET shorter == ShapeArrays(n - 1) IN
         shorter \cup {Append(a, s) : a \in {b \in shorter : Len(b) = n - 1}, s \in ShapeObject}

\* no value returned yet
NoArea == [n |-> -1, pi |-> -1]

\* the record of a call: the method, its target (0 is the whole array, i > 0
\* the shape at position i), the array before the call, the value returned,
\* and, when the call before it had the same target, what that call returned
CallRecord(op, target, pre, ret) ==
    [op |-> op, target |-> target, pre |-> pre, ret |-> ret,
     repeat  |-> shapeOp.op = op /\ shapeOp.target = target,
     prevRet |-> IF shapeOp.op = op /\ shapeOp.target = target THEN shapeOp.ret ELSE NoArea]

NoCall ==
    [op |-> "none", target |-> 0, pre |-> <<>>, ret |-> NoArea,
     repeat |-> FALSE, prevRet |-> NoArea]

ShapeInit ==
    /\ shapes \in ShapeArrays(MaxShapes)
    /\ shapeOp = NoCall

\* shapes[i - 1].calculateArea()
CallCalculateArea(i) ==
    LET r == Shape_calculateArea(shapes[i]) IN
    /\ shapes' = [shapes EXCEPT ![i] = r.self]
    /\ shapeOp' = CallRecord("calculateArea", i, shapes, r.ret)
    /\ UNCHANGED notShapeVars

\* calculateAreaOfShapes(shapes)
CallCalculateAreaOfShapes ==
    LET r == calculateAreaOfShapes(shapes) IN
    /\ shapes' = r.shapes
    /\ shapeOp' = CallRecord("calculateAreaOfShapes", 0, shapes, r.ret)
    /\ UNCHANGED notShapeVars

ShapeNext ==
    \/ \E i \in 1 .. Len(shapes) : CallCalculateArea(i)
    \/ CallCalculateAreaOfShapes


\* the dimensions of the arrays whose totals are rounded: 1 and the first
\* power of two from which not every integer is a floating-point value
WideDim == {1, Pow2(MantissaBits)}

WideShapeObject ==
    {Rectangle(w, h) : w \in WideDim, h \in WideDim}
        \cup {Circle(r) : r \in WideDim} \cup {Square(e) : e \in WideDim}

\* the arrays of at most n shapes of these dimensions
RECURSIVE WideShapeArrays(_)
WideShapeArrays(n) ==
    IF n = 0 THEN {<<>>}
    ELSE LET shorter == WideShapeArrays(n - 1) IN
         shorter \cup {Append(a, s) : a \in {b \in shorter : Len(b) = n - 1},
                                      s \in WideShapeObject}

WideShapeInit ==
    /\ shapes \in WideShapeArrays(MaxShapes + 1)
    /\ shapeOp = NoCall

\* calculateAreaOfShapes(shapes) of the version that branches on instanceof
CallCalculateAreaOfShapes_instanceof ==
    LET r == calculateAreaOfShapes_instanceof(shapes) IN
    /\ shapes' = r.shapes
    /\ shapeOp' = CallRecord("calculateAreaOfShapes_instanceof", 0, shapes, r.ret)
    /\ UNCHANGED notShapeVars

\* the two versions of calculateAreaOfShapes, called on the same array
TotalNext ==
    \/ CallCalculateAreaOfShapes
    \/ CallCalculateAreaOfShapes_instanceof

(***************************************************************************)
(*       SOLID/DependencyInversionPrinciple.ts, OOP/Polymorphism.ts        *)
(*                                                                         *)
(* A method is modelled by what a call of it does: the provider methods it *)
(* invokes, in order, and the lines it writes with console.log.            *)
(***************************************************************************)
\* the classes that implement IntroductionService
IntroductionServiceClass == {"EngineerIntroductionService", "MusicianIntroductionService"}

\* ConsoleLogger and its subclass
LoggerClass == {"ConsoleLogger", "BetterConsoleLogger"}

\* the messages the driver of Polymorphism.ts logs, and the empty message
Message == {"Hello world!", "Hello world in a slightly different way!", ""}

\* one invocation of a provider method
Invocation(receiver, method, arg) == [receiver |-> receiver, method |-> method, arg |-> arg]

\* EngineerIntroductionService.introduce()
EngineerIntroductionService_introduce ==
    [invoked |-> <<Invocation("EngineerIntroductionService", "introduce", "")>>,
     out     |-> <<"I am an engineer">>]

\* MusicianIntroductionService.introduce()
MusicianIntroductionService_introduce ==
    [invoked |-> <<Invocation("MusicianIntroductionService", "introduce", "")>>,
     out     |-> <<"I am a musician">>]

\* introductionService.introduce(): the method of the object's class
IntroductionService_introduce(service) ==
    CASE service = "EngineerIntroductionService" -> EngineerIntroductionService_introduce
      [] service = "MusicianIntroductionService" -> MusicianIntroductionService_introduce

\* a constructor that makes its own service instead of keeping the one supplied
Person_constructor_OwnService(introductionService) ==
    [introductionService |-> "EngineerIntroductionService"]

\* new Person(introductionService)
Person_constructor(introductionService) == [introductionService |-> introductionService]

\* a Person that keeps its own service, as class Engineer of the first block does
Person_introduceSelf_HardCoded(self) ==
    IntroductionService_introduce("EngineerIntroductionService")

\* Person.introduceSelf()
Person_introduceSelf(self) ==
    IntroductionService_introduce(self.introductionService)

\* ConsoleLogger.logToConsole(message)
ConsoleLogger_logToConsole(message) ==
    [invoked |-> <<Invocation("ConsoleLogger", "logToConsole", message)>>,
     out     |-> <<message>>]

\* BetterConsoleLogger.logToConsole(message), the override
BetterConsoleLogger_logToConsole(message) ==
    [invoked |-> <<Invocation("BetterConsoleLogger", "logToConsole", message)>>,
     out     |-> <<"BETTER_LOGGER_METHOD " \o message>>]

\* logger.logToConsole(message): the method of the object's class
Logger_logToConsole(logger, message) ==
    CASE logger = "ConsoleLogger"       -> ConsoleLogger_logToConsole(message)
      [] logger = "BetterConsoleLogger" -> BetterConsoleLogger_logToConsole(message)

\* new LoggerConsumer(logger)
LoggerConsumer_constructor(logger) == [logger |-> logger]

\* LoggerConsumer.log(message)
LoggerConsumer_log(self, message) ==
    Logger_logToConsole(self.logger, message)

\* the record of an operation on a consumer; arg is the provider supplied to
\* a constructor, or the message of a log
ProviderOp(consumer, index, op, arg, invoked, out) ==
    [consumer |-> consumer, index |-> index, op |-> op, arg |-> arg,
     invoked |-> invoked, out |-> out]

NoProviderOp == ProviderOp("none", 0, "none", "", <<>>, <<>>)

\* no consumer constructed yet
ProviderInit ==
    /\ persons = <<>>
    /\ loggerConsumers = <<>>
    /\ providerOp = NoProviderOp

\* const engineer = new Person(new EngineerIntroductionService()), ...
NewPerson(service) ==
    /\ Len(persons) < MaxConsumers
    /\ persons' = Append(persons, Person_constructor(service))
    /\ providerOp' = ProviderOp("Person", Len(persons) + 1, "new", service, <<>>, <<>>)
    /\ UNCHANGED <<loggerConsumers, notProviderVars>>

\* engineer.introduceSelf(), musician.introduceSelf()
IntroduceSelf(i) ==
    LET r == Person_introduceSelf(persons[i]) IN
    /\ providerOp' = ProviderOp("Person", i, "introduceSelf", "", r.invoked, r.out)
    /\ UNCHANGED <<persons, loggerConsumers, notProviderVars>>

\* loggerConsumer = new LoggerConsumer(logger)
NewLoggerConsumer(logger) ==
    /\ Len(loggerConsumers) < MaxConsumers
    /\ loggerConsumers' = Append(loggerConsumers, LoggerConsumer_constructor(logger))
    /\ providerOp' = ProviderOp("LoggerConsumer", Len(loggerConsumers) + 1, "new", logger, <<>>, <<>>)
    /\ UNCHANGED <<persons, notProviderVars>>

\* loggerConsumer.log(message)
Log(i, message) ==
    LET r == LoggerConsumer_log(loggerConsumers[i], message) IN
    /\ providerOp' = ProviderOp("LoggerConsumer", i, "log", message, r.invoked, r.out)
    /\ UNCHANGED <<persons, loggerConsumers, notProviderVars>>

ProviderNext ==
    \/ \E s \in IntroductionServiceClass : NewPerson(s)
    \/ \E i \in 1 .. Len(persons) : IntroduceSelf(i)
    \/ \E l \in LoggerClass : NewLoggerConsumer(l)
    \/ \E i \in 1 .. Len(loggerConsumers), m \in Message : Log(i, m)

(***************************************************************************)
(*        SOLID/Open_Closed.ts: the Bird interface and its segregation     *)
(*                                                                         *)
(* "broad" is the block with interface Bird { fly, walk }; "segregated" is *)
(* the block with interfaces CanWalk and CanFly.                           *)
(***************************************************************************)
BirdExample == {"broad", "segregated"}

BirdClass == {"Tui", "Kiwi"}

\* a method that runs to its end
Returned == [kind |-> "returned", error |-> ""]

\* throw new Error(message), with no try around it in the method
Threw(message) == [kind |-> "threw", error |-> message]

\* the methods the interfaces declare
InterfaceMembers(type) ==
    CASE type = "Bird"    -> {"fly", "walk"}
      [] type = "CanWalk" -> {"walk"}
      [] type = "CanFly"  -> {"fly"}

\* the interfaces each block declares
Interfaces(example) ==
    IF example = "broad" THEN {"Bird"} ELSE {"CanWalk", "CanFly"}

\* the methods the class bodies of the broad block define
Broad_Methods(class) == {"fly", "walk"}

\* the methods the class bodies of the segregated block define
Segregated_Methods(class) ==
    IF class = "Tui" THEN {"fly", "walk"} ELSE {"walk"}

Methods(example, class) ==
    IF example = "broad" THEN Broad_Methods(class) ELSE Segregated_Methods(class)

\* a Kiwi whose fly swallows its own error
Broad_Invoke_Swallowed(class, method) == Returned

\* the broad block: what a call of class.method() does
Broad_Invoke(class, method) ==
    CASE class = "Tui"  /\ method = "fly"  -> Returned
      [] class = "Tui"  /\ method = "walk" -> Returned
      [] class = "Kiwi" /\ method = "fly"  -> Threw("Unfortunately, Kiwi can not fly!")
      [] class = "Kiwi" /\ method = "walk" -> Returned

\* a segregated Kiwi that kept the throw of the broad Kiwi, in its walk
Segregated_Invoke_KiwiThrows(class, method) ==
    IF class = "Kiwi" THEN Threw("Unfortunately, Kiwi can not fly!") ELSE Returned

\* the segregated block: what a call of class.method() does
Segregated_Invoke(class, method) ==
    CASE class = "Tui"  /\ method = "fly"  -> Returned
      [] class = "Tui"  /\ method = "walk" -> Returned
      [] class = "Kiwi" /\ method = "walk" -> Returned

Invoke(example, class, method) ==
    IF example = "broad" THEN Broad_Invoke(class, method)
    ELSE Segregated_Invoke(class, method)

\* the static types an object of a block can be held as: its class, or an
\* interface of the block
StaticTypes(example) == BirdClass \cup Interfaces(example)

\* the methods a variable of a static type offers
TypeMembers(example, type) ==
    IF type \in BirdClass THEN Methods(example, type) ELSE InterfaceMembers(type)

\* an object of the class can be assigned to a variable of the type: the type
\* is its class, or an interface all of whose methods the class defines
Assignable(example, class, type) ==
    \/ type = class
    \/ type \in Interfaces(example) /\ InterfaceMembers(type) \subseteq Methods(example, class)

\* no bird called yet
BirdInit == birdCalls = <<>>

\* const b: type = new class(); b.method(): the caller sees the call return or
\* sees the error it threw
BirdCall(example, class, type, method) ==
    /\ Len(birdCalls) < MaxBirdCalls
    /\ Assignable(example, class, type)
    /\ method \in TypeMembers(example, type)
    /\ birdCalls' = Append(birdCalls,
           [example |-> example, class |-> class, type |-> type, method |-> method,
            outcome |-> Invoke(example, class, method)])
    /\ UNCHANGED notBirdVars

BirdNext ==
    \E example \in BirdExample, class \in BirdClass :
        \E type \in StaticTypes(example), method \in {"fly", "walk"} :
            BirdCall(example, class, type, method)

(***************************************************************************)
(*            The abstraction example: class CoffeeMachine                 *)
(*                                                                         *)
(* The file holds the class twice: the first logs "Brewing..." in every    *)
(* iteration, the second logs the entries of _brewingSteps.                *)
(*                                                                         *)
(* A call of the async MakeCoffee runs until its first await and is then   *)
(* resumed by the event loop: a timer callback is a task, the continuation *)
(* of an await is a microtask, and every queued microtask runs before the  *)
(* next task starts.                                                       *)
(***************************************************************************)
\* Array(5): the number of iterations of the brewing loop
BrewIterations == 5

\* the calls of MakeCoffee that can be made on the machine
CallId == 1 .. MaxCalls

\* cups: 1 | 2
Cups == {1, 2}

\* new CoffeeMachine() of the first class: no field
PlainMachine == [version |-> "plain", brewingSteps |-> <<>>]

\* new CoffeeMachine() of the second class: the initializer of _brewingSteps
StepsMachine ==
    [version |-> "steps",
     brewingSteps |-> <<"Heating element",
                        "Pumping water",
                        "Pre-infusion",
                        "Increasing pumping pressure",
                        "Turning off pump and heating element">>]

\* for (const iteration in Array(5)): a sparse array has no keys to enumerate
BrewKeys_Sparse == <<>>

\* for (const iteration in [...Array(5).keys()]): for-in enumerates the
\* property names of the array [0, 1, 2, 3, 4], the strings "0" .. "4"
BrewKeys == [i \in 1 .. BrewIterations |-> ToString(i - 1)]

\* arr[key] for a property name: the element whose index is written as key
ArrayGet(arr, key) ==
    IF \E i \in 0 .. Len(arr) - 1 : ToString(i) = key
    THEN arr[(CHOOSE i \in 0 .. Len(arr) - 1 : ToString(i) = key) + 1]
    ELSE "undefined"

\* the line one iteration of _brewCoffeeInternal logs
BrewLine(m, key) ==
    IF m.version = "plain" THEN "Brewing..." ELSE ArrayGet(m.brewingSteps, key)

\* `Starting to make coffee using ${cups} cups`
StartLine(cups) == "Starting to make coffee using " \o ToString(cups) \o " cups"

FinishedLine == "Coffee has finished brewing"

\* a call that has not been made
NotCalled ==
    [pc |-> "notCalled", cups |-> 0, iteration |-> 0, log |-> <<>>,
     timersSet |-> 0, timersFired |-> 0]

\* _brewCoffeeInternal from the head of its loop to its next suspension: one
\* more iteration (log, setTimeout, await) or, the keys exhausted, its return
BrewLoop(m, c) ==
    IF c.iteration < Len(BrewKeys)
    THEN [c EXCEPT !.log = Append(@, BrewLine(m, BrewKeys[c.iteration + 1])),
                   !.timersSet = @ + 1,
                   !.iteration = @ + 1,
                   !.pc = "awaitTimer"]
    ELSE [c EXCEPT !.pc = "brewReturned"]

\* a MakeCoffee without the await: it logs the end as soon as brewing started
MakeCoffee_NoAwait(m, cups) ==
    LET c == BrewLoop(m, [NotCalled EXCEPT !.cups = cups,
                                           !.log = <<StartLine(cups)>>])
    IN [c EXCEPT !.log = Append(@, FinishedLine)]

\* MakeCoffee(cups) up to its first suspension: the start line, then the call
\* of _brewCoffeeInternal, which runs to its first await
MakeCoffee(m, cups) ==
    BrewLoop(m, [NotCalled EXCEPT !.cups = cups, !.log = <<StartLine(cups)>>])

\* the rest of MakeCoffee after await this._brewCoffeeInternal()
MakeCoffee_resume(c) ==
    [c EXCEPT !.log = Append(@, FinishedLine), !.pc = "done"]

\* a continuation is queued: the microtask queue is not empty
MicrotaskPending == \E c \in CallId : calls[c].pc \in {"timerFired", "brewReturned"}

\* const machine = new CoffeeMachine(), of either class; no call made
CoffeeInit ==
    /\ machine \in {PlainMachine, StepsMachine}
    /\ calls = [c \in CallId |-> NotCalled]

\* machine.MakeCoffee(cups), called from a task
CallMakeCoffee(c, cups) ==
    /\ calls[c].pc = "notCalled"
    /\ ~MicrotaskPending
    /\ calls' = [calls EXCEPT ![c] = MakeCoffee(machine, cups)]
    /\ UNCHANGED <<machine, notCoffeeVars>>

\* a timer whose callback resolves one promise kept in the machine, so that
\* it wakes every call that is waiting
TimerFire_SharedPromise(c) ==
    /\ calls[c].pc = "awaitTimer"
    /\ ~MicrotaskPending
    /\ calls' = [d \in CallId |->
                   IF calls[d].pc = "awaitTimer"
                   THEN [calls[d] EXCEPT !.timersFired = @ + 1, !.pc = "timerFired"]
                   ELSE calls[d]]
    /\ UNCHANGED <<machine, notCoffeeVars>>

\* the timer of setTimeout(resolve, 1000) fires: resolve() fulfils the awaited
\* promise and queues the continuation of _brewCoffeeInternal
TimerFire(c) ==
    /\ calls[c].pc = "awaitTimer"
    /\ ~MicrotaskPending
    /\ calls' = [calls EXCEPT ![c].timersFired = @ + 1, ![c].pc = "timerFired"]
    /\ UNCHANGED <<machine, notCoffeeVars>>

\* the continuation of _brewCoffeeInternal: back to the head of the loop
ResumeBrew(c) ==
    /\ calls[c].pc = "timerFired"
    /\ calls' = [calls EXCEPT ![c] = BrewLoop(machine, calls[c])]
    /\ UNCHANGED <<machine, notCoffeeVars>>

\* the continuation of MakeCoffee, queued when _brewCoffeeInternal returned
ResumeMakeCoffee(c) ==
    /\ calls[c].pc = "brewReturned"
    /\ calls' = [calls EXCEPT ![c] = MakeCoffee_resume(calls[c])]
    /\ UNCHANGED <<machine, notCoffeeVars>>

CoffeeNext ==
    \/ \E c \in CallId, cups \in Cups : CallMakeCoffee(c, cups)
    \/ \E c \in CallId : TimerFire(c)
    \/ \E c \in CallId : ResumeBrew(c)
    \/ \E c \in CallId : ResumeMakeCoffee(c)

\* the event loop runs every timer that is due and every queued microtask
CoffeeFairness ==
    \A c \in CallId :
        /\ WF_vars(TimerFire(c))
        /\ WF_vars(ResumeBrew(c))
        /\ WF_vars(ResumeMakeCoffee(c))

(***************************************************************************)
(* Specifications. The examples share no state: each specification runs    *)
(* one example and holds the variables of the others at their initial      *)
(* values.                                                                 *)
(***************************************************************************)
\* the animal example at rest: both animals just constructed
AnimalAtRest ==
    /\ plain = EncAnimal_constructor("Dog")
    /\ audited = InhAnimal_constructor("Dog")
    /\ console = NoLine
    /\ animalOp = OpRecord("both", "new", "constructor", FALSE,
                           FlagsOf(EncAnimal_constructor("Dog")), FALSE, 0)

\* the shape example at rest: an empty array, nothing called
ShapeAtRest ==
    /\ shapes = <<>>
    /\ shapeOp = NoCall

\* the coffee example at rest: a machine, no call made
CoffeeAtRest ==
    /\ machine = StepsMachine
    /\ calls = [c \in CallId |-> NotCalled]

AnimalSpecInit == AnimalInit /\ ShapeAtRest /\ ProviderInit /\ BirdInit /\ CoffeeAtRest

AnimalSpec == AnimalSpecInit /\ [][AnimalNext]_vars

PairSpecInit == AnimalInit /\ ShapeAtRest /\ ProviderInit /\ BirdInit /\ CoffeeAtRest

PairSpec == PairSpecInit /\ [][PairNext]_vars

ShapeSpecInit == ShapeInit /\ AnimalAtRest /\ ProviderInit /\ BirdInit /\ CoffeeAtRest

ShapeSpec == ShapeSpecInit /\ [][ShapeNext]_vars

TotalSpecInit == WideShapeInit /\ AnimalAtRest /\ ProviderInit /\ BirdInit /\ CoffeeAtRest

TotalSpec == TotalSpecInit /\ [][TotalNext]_vars

ProviderSpecInit == ProviderInit /\ AnimalAtRest /\ ShapeAtRest /\ BirdInit /\ CoffeeAtRest

ProviderSpec == ProviderSpecInit /\ [][ProviderNext]_vars

BirdSpecInit == BirdInit /\ AnimalAtRest /\ ShapeAtRest /\ ProviderInit /\ CoffeeAtRest

BirdSpec == BirdSpecInit /\ [][BirdNext]_vars

CoffeeSpecInit == CoffeeInit /\ AnimalAtRest /\ ShapeAtRest /\ ProviderInit /\ BirdInit

CoffeeSpec == CoffeeSpecInit /\ [][CoffeeNext]_vars

CoffeeLiveSpec == CoffeeSpecInit /\ [][CoffeeNext]_vars /\ CoffeeFairness

Init == AnimalInit /\ ShapeInit /\ ProviderInit /\ BirdInit /\ CoffeeInit

Next == AnimalNext \/ PairNext \/ ShapeNext \/ TotalNext \/ ProviderNext \/ BirdNext \/ CoffeeNext

Spec == Init /\ [][Next]_vars

(***************************************************************************)
(* Claims about the Animal classes, checked under AnimalSpec.              *)
(***************************************************************************)
\* the object the last operation acted on
OpTarget == IF animalOp.target = "audited" THEN FlagsOf(audited) ELSE FlagsOf(plain)

\* the value of one flag in a record of flags
FlagValue(flags, flag) ==
    CASE flag = "isSleeping" -> flags.isSleeping
      [] flag = "isEating"   -> flags.isEating
      [] flag = "isPlaying"  -> flags.isPlaying

\* the number of flags that are true
TrueFlags(flags) == Cardinality({f \in Flag : FlagValue(flags, f)})

\* C1: in both files and for every variant, right after a flag is assigned
\* true that flag is true and the other two are false, whatever the flags
\* were before (so isEating = true then isPlaying = true leaves only
\* isPlaying true).
C1_SetTrueIsExclusive ==
    (animalOp.op = "set" /\ animalOp.arg = TRUE) =>
        \A f \in Flag : FlagValue(OpTarget, f) = (f = animalOp.member)

\* the Dog of Encapsulation.ts was eating and has just been assigned
\* isPlaying = true
C1_Witness ==
    /\ animalOp.target = "plain" /\ plain.kind = "Dog"
    /\ animalOp.op = "set" /\ animalOp.member = "isPlaying" /\ animalOp.arg = TRUE
    /\ animalOp.pre.isEating
    /\ plain.isPlaying /\ ~plain.isEating /\ ~plain.isSleeping

\* C2: right after a flag is assigned false, each of the two flags that
\* were not assigned has the value it had before the assignment.
C2_SetFalseKeepsOthers ==
    (animalOp.op = "set" /\ animalOp.arg = FALSE) =>
        \A f \in Flag \ {animalOp.member} :
            FlagValue(OpTarget, f) = FlagValue(animalOp.pre, f)

\* C3: in every reachable state of either Animal at most one of the three
\* flags is true, and right after construction all three are false.
C3_AtMostOneFlag ==
    /\ TrueFlags(FlagsOf(plain)) <= 1
    /\ TrueFlags(FlagsOf(audited)) <= 1
    /\ (animalOp.op = "new" /\ animalOp.target \in {"plain", "both"})
           => TrueFlags(FlagsOf(plain)) = 0
    /\ (animalOp.op = "new" /\ animalOp.target \in {"audited", "both"})
           => TrueFlags(FlagsOf(audited)) = 0

\* the audited animal has been written twice and read, and one flag is true
\* where another was true before the last assignment
C3_Witness ==
    /\ animalOp.target = "audited" /\ animalOp.op = "set"
    /\ TrueFlags(animalOp.pre) = 1
    /\ TrueFlags(FlagsOf(audited)) = 1
    /\ FlagsOf(audited) # animalOp.pre
    /\ audited.numberOfTimesWritten >= 2
    /\ audited.numberOfTimesRead >= 1

\* an operation on the audited Animal has just been performed
AuditedOp(op) == animalOp.target = "audited" /\ animalOp.op = op

\* what C13 says of every state: each counter is the number of operations of
\* its kind performed on the object since its construction, 0 right after it,
\* and a read of a counter returns the counter
C13_CountersMatch ==
    /\ audited.numberOfTimesRead = animalOp.reads
    /\ audited.numberOfTimesWritten = animalOp.writes
    /\ (animalOp.op = "new" /\ animalOp.target # "plain") =>
           (audited.numberOfTimesRead = 0 /\ audited.numberOfTimesWritten = 0)
    /\ (AuditedOp("get") /\ animalOp.member = "numberOfTimesRead") =>
           animalOp.num = audited.numberOfTimesRead
    /\ (AuditedOp("get") /\ animalOp.member = "numberOfTimesWritten") =>
           animalOp.num = audited.numberOfTimesWritten

\* what C13 says of every step on the same object: an assignment adds one
\* write and no read, a read of a flag or of isAlive adds one read and no
\* write, a read of a counter adds nothing, and no counter goes down
C13_StepCounts ==
    LET made(op) == animalOp'.target = "audited" /\ animalOp'.op = op
        read     == audited.numberOfTimesRead
        written  == audited.numberOfTimesWritten
    IN  /\ made("set") =>
               (audited'.numberOfTimesWritten = written + 1
                    /\ audited'.numberOfTimesRead = read)
        /\ (made("get") /\ animalOp'.member \in AuditedGetter) =>
               (audited'.numberOfTimesRead = read + 1
                    /\ audited'.numberOfTimesWritten = written)
        /\ (made("get") /\ animalOp'.member \notin AuditedGetter) =>
               (audited'.numberOfTimesRead = read
                    /\ audited'.numberOfTimesWritten = written)
        /\ ~made("new") =>
               (audited'.numberOfTimesRead >= read
                    /\ audited'.numberOfTimesWritten >= written)

\* C13: numberOfTimesWritten is the number of setter assignments performed on
\* the audited Animal and numberOfTimesRead the number of reads of isSleeping,
\* isPlaying, isEating and isAlive; both start at 0 and never decrease, a
\* setter leaves the read count, a getter the write count, and a read of
\* either counter leaves both.
C13_CountersCountOperations ==
    /\ []C13_CountersMatch
    /\ [][C13_StepCounts]_vars

\* after two assignments and a read of isAlive, numberOfTimesWritten has
\* just been read as 2
C13_Witness ==
    /\ AuditedOp("get") /\ animalOp.member = "numberOfTimesWritten"
    /\ animalOp.num = 2
    /\ animalOp.writes = 2 /\ animalOp.reads = 1
    /\ audited.numberOfTimesRead = 1

\* C14: isAlive of the audited Animal is true right after construction and
\* in every state reached by assignments and reads, no member assigns it, and
\* every read of it returns true.
C14_AlwaysAlive ==
    /\ audited.isAlive
    /\ "isAlive" \notin Flag
    /\ (AuditedOp("get") /\ animalOp.member = "isAlive") => animalOp.ret = TRUE

\* the animal was put to sleep and woken, and isAlive has just been read
C14_Witness ==
    /\ AuditedOp("get") /\ animalOp.member = "isAlive" /\ animalOp.ret = TRUE
    /\ animalOp.writes >= 2
    /\ ~audited.isSleeping

\* C15: right after any flag of either Animal is assigned false, all three
\* flags are false, also when the flag that was true is not the one assigned.
C15_SetFalseClearsAll ==
    (animalOp.op = "set" /\ animalOp.arg = FALSE) =>
        \A f \in Flag : FlagValue(OpTarget, f) = FALSE

\* the audited animal was eating and has just been assigned isPlaying = false
C15_Witness ==
    /\ AuditedOp("set") /\ animalOp.member = "isPlaying" /\ animalOp.arg = FALSE
    /\ animalOp.pre.isEating
    /\ TrueFlags(FlagsOf(audited)) = 0

(***************************************************************************)
(* The two Animal classes side by side, checked under PairSpec.            *)
(***************************************************************************)
\* C16: the audited Animal and the plain Animal, given the same assignments
\* from construction on and read in any interleaving on either side, have
\* equal isSleeping, isEating and isPlaying after every step, and a getter of
\* one returns what the field of the other holds.
C16_AuditedAgreesWithPlain ==
    /\ FlagsOf(audited) = FlagsOf(plain)
    /\ (animalOp.op = "get" /\ animalOp.member \in Flag) =>
           /\ animalOp.ret = FlagValue(FlagsOf(plain), animalOp.member)
           /\ animalOp.ret = FlagValue(FlagsOf(audited), animalOp.member)

\* both animals are eating after two assignments, the audited one has been
\* read twice, and the plain one has just been read
C16_Witness ==
    /\ animalOp.target = "plain" /\ animalOp.op = "get"
    /\ animalOp.member = "isEating" /\ animalOp.ret = TRUE
    /\ audited.isEating /\ plain.isEating
    /\ audited.numberOfTimesWritten = 2
    /\ audited.numberOfTimesRead = 2

(***************************************************************************)
(* Claims about the shapes, checked under ShapeSpec.                       *)
(***************************************************************************)
\* C4: calculateArea returns width * height for a Rectangle, radius * PI for
\* a Circle and edgeLength * edgeLength for a Square.
C4_AreaFormulas ==
    shapeOp.op = "calculateArea" =>
        LET s == shapeOp.pre[shapeOp.target] IN
        /\ s.class = "Rectangle" =>
               (shapeOp.ret.n = s.width * s.height /\ shapeOp.ret.pi = 0)
        /\ s.class = "Circle" =>
               (shapeOp.ret.n = 0 /\ shapeOp.ret.pi = s.radius)
        /\ s.class = "Square" =>
               (shapeOp.ret.n = s.edgeLength * s.edgeLength /\ shapeOp.ret.pi = 0)

\* the array holds Circle(2) and Rectangle(3, 4), and Rectangle(3, 4) has
\* just returned 12
C4_Witness ==
    /\ shapeOp.op = "calculateArea"
    /\ shapeOp.pre = <<Circle(2), Rectangle(3, 4)>>
    /\ shapeOp.target = 2
    /\ shapeOp.ret = [n |-> 12, pi |-> 0]

\* C5: a call of calculateArea or calculateAreaOfShapes leaves the array and
\* every dimension in it as they were before the call, and a call repeated on
\* the same shape (or on the array) returns what the call before it returned.
C5_AreaCallsArePure ==
    (shapeOp.op # "none") =>
        /\ shapes = shapeOp.pre
        /\ shapeOp.repeat => shapeOp.ret = shapeOp.prevRet

\* calculateAreaOfShapes has been called twice in a row on an array of a
\* square and a rectangle
C5_Witness ==
    /\ shapes = <<Square(2), Rectangle(2, 3)>>
    /\ shapeOp.op = "calculateAreaOfShapes"
    /\ shapeOp.repeat
    /\ shapeOp.ret = [n |-> 10, pi |-> 0]

(***************************************************************************)
(* Claims about the total of an array, checked under TotalSpec.            *)
(***************************************************************************)
\* arr without its element at position i
Without(arr, i) == SubSeq(arr, 1, i - 1) \o SubSeq(arr, i + 1, Len(arr))

\* the arrays that hold the elements of arr in some order
RECURSIVE Reorderings(_)
Reorderings(arr) ==
    IF arr = <<>> THEN {<<>>}
    ELSE UNION {{<<arr[i]>> \o rest : rest \in Reorderings(Without(arr, i))} :
                   i \in 1 .. Len(arr)}

\* a total has just been returned by one of the two versions
TotalReturned ==
    shapeOp.op \in {"calculateAreaOfShapes", "calculateAreaOfShapes_instanceof"}

\* the two versions return the same total for the array of the last call, and
\* the total of the empty array is 0
TotalsAgree ==
    TotalReturned =>
        /\ shapeOp.ret = calculateAreaOfShapes(shapeOp.pre).ret
        /\ shapeOp.ret = calculateAreaOfShapes_instanceof(shapeOp.pre).ret
        /\ (shapeOp.pre = <<>>) => shapeOp.ret = Num(0)

TotalIsExact ==
    \/ Len(shapeOp.pre) <= 2
    \/ /\ \A i \in 1 .. Len(shapeOp.pre) : shapeOp.pre[i].class # "Circle"
       /\ shapeOp.ret.n < Pow2(MantissaBits)

ExpectedIntroduction(service) ==
    CASE service = "EngineerIntroductionService" -> "I am an engineer"
      [] service = "MusicianIntroductionService" -> "I am a musician"

\* the line BetterConsoleLogger writes for each message
ExpectedBetterLine(message) ==
    CASE message = "Hello world!" -> "BETTER_LOGGER_METHOD Hello world!"
      [] message = "Hello world in a slightly different way!"
             -> "BETTER_LOGGER_METHOD Hello world in a slightly different way!"
      [] message = "" -> "BETTER_LOGGER_METHOD "

\* C6: one introduceSelf / log(m) invokes the operation of the provider the
\* consumer was constructed with exactly once and writes exactly that
\* provider's line; consumers constructed with different providers write
\* different lines.
C6_ConsumerUsesInjectedProvider ==
    /\ providerOp.op = "introduceSelf" =>
           LET service == persons[providerOp.index].introductionService IN
           /\ providerOp.invoked = <<Invocation(service, "introduce", "")>>
           /\ providerOp.out = <<ExpectedIntroduction(service)>>
    /\ providerOp.op = "log" =>
           LET logger == loggerConsumers[providerOp.index].logger IN
           /\ providerOp.invoked = <<Invocation(logger, "logToConsole", providerOp.arg)>>
           /\ providerOp.out =
                  <<IF logger = "ConsoleLogger" THEN providerOp.arg
                    ELSE ExpectedBetterLine(providerOp.arg)>>
    /\ \A i, j \in 1 .. Len(persons) :
           persons[i].introductionService # persons[j].introductionService
               => Person_introduceSelf(persons[i]).out # Person_introduceSelf(persons[j]).out
    /\ \A i, j \in 1 .. Len(loggerConsumers), m \in Message :
           loggerConsumers[i].logger # loggerConsumers[j].logger
               => LoggerConsumer_log(loggerConsumers[i], m).out
                      # LoggerConsumer_log(loggerConsumers[j], m).out

\* an engineer and a musician exist, as do a consumer of each logger, and the
\* consumer of BetterConsoleLogger has just logged "Hello world!"
C6_Witness ==
    /\ \E i, j \in 1 .. Len(persons) :
           /\ persons[i].introductionService = "EngineerIntroductionService"
           /\ persons[j].introductionService = "MusicianIntroductionService"
    /\ \E i \in 1 .. Len(loggerConsumers) : loggerConsumers[i].logger = "ConsoleLogger"
    /\ providerOp.op = "log"
    /\ loggerConsumers[providerOp.index].logger = "BetterConsoleLogger"
    /\ providerOp.arg = "Hello world!"
    /\ providerOp.out = <<"BETTER_LOGGER_METHOD Hello world!">>

\* what C11 says of every state: a consumer holds one provider, of the
\* capability it was declared over, and a consumer just constructed holds the
\* provider that was supplied to its constructor
C11_HoldsSuppliedProvider ==
    /\ \A i \in 1 .. Len(persons) :
           /\ DOMAIN persons[i] = {"introductionService"}
           /\ persons[i].introductionService \in IntroductionServiceClass
    /\ \A i \in 1 .. Len(loggerConsumers) :
           /\ DOMAIN loggerConsumers[i] = {"logger"}
           /\ loggerConsumers[i].logger \in LoggerClass
    /\ (providerOp.op = "new" /\ providerOp.consumer = "Person") =>
           persons[providerOp.index].introductionService = providerOp.arg
    /\ (providerOp.op = "new" /\ providerOp.consumer = "LoggerConsumer") =>
           loggerConsumers[providerOp.index].logger = providerOp.arg

\* what C11 says of every step: every consumer that exists keeps its provider,
\* and so its output, whether the step is a call of introduceSelf or log or the
\* construction of another consumer
C11_StepKeepsProviders ==
    /\ \A i \in 1 .. Len(persons) :
           /\ i <= Len(persons')
           /\ persons'[i] = persons[i]
           /\ Person_introduceSelf(persons'[i]).out = Person_introduceSelf(persons[i]).out
    /\ \A i \in 1 .. Len(loggerConsumers) :
           /\ i <= Len(loggerConsumers')
           /\ loggerConsumers'[i] = loggerConsumers[i]
           /\ \A m \in Message :
                  LoggerConsumer_log(loggerConsumers'[i], m).out
                      = LoggerConsumer_log(loggerConsumers[i], m).out

\* C11: a consumer holds exactly one provider, the one its constructor was
\* given; no introduceSelf or log changes it, and the construction of another
\* consumer with another provider leaves it and its output as they were.
C11_ProviderFixedAtConstruction ==
    /\ []C11_HoldsSuppliedProvider
    /\ [][C11_StepKeepsProviders]_vars

\* a musician was constructed after an engineer, both have since been used,
\* and the engineer, called last, still introduces itself as an engineer
C11_Witness ==
    /\ Len(persons) = 2
    /\ persons[1].introductionService = "EngineerIntroductionService"
    /\ persons[2].introductionService = "MusicianIntroductionService"
    /\ Len(loggerConsumers) = 2
    /\ loggerConsumers[1].logger # loggerConsumers[2].logger
    /\ providerOp.op = "introduceSelf" /\ providerOp.index = 1
    /\ providerOp.out = <<"I am an engineer">>

(***************************************************************************)
(* Claims about the birds, checked under BirdSpec.                         *)
(***************************************************************************)
\* C7: in the broad block every call of Kiwi.fly ends with the error reaching
\* the caller, and every call of Kiwi.walk, Tui.fly and Tui.walk returns.
C7_OnlyKiwiFlyThrows ==
    \A i \in 1 .. Len(birdCalls) :
        LET c == birdCalls[i] IN
        c.example = "broad" =>
            IF c.class = "Kiwi" /\ c.method = "fly"
            THEN c.outcome.kind = "threw"
                 /\ c.outcome.error = "Unfortunately, Kiwi can not fly!"
            ELSE c.outcome.kind = "returned"

\* the caller saw Kiwi.fly throw through a Bird variable, then called
\* Kiwi.walk and Tui.fly
C7_Witness ==
    /\ Len(birdCalls) = 3
    /\ \A i \in 1 .. 3 : birdCalls[i].example = "broad" /\ birdCalls[i].type = "Bird"
    /\ birdCalls[1].class = "Kiwi" /\ birdCalls[1].method = "fly"
    /\ birdCalls[1].outcome.kind = "threw"
    /\ birdCalls[2].class = "Kiwi" /\ birdCalls[2].method = "walk"
    /\ birdCalls[3].class = "Tui" /\ birdCalls[3].method = "fly"
    /\ birdCalls[3].outcome.kind = "returned"

\* C8: in the segregated block Kiwi defines no fly and is still assignable to
\* CanWalk (not to CanFly), and no call on the segregated Kiwi or Tui, through
\* any type it can be held as, ends in an error.
C8_SegregatedNeverThrows ==
    /\ "fly" \notin Methods("segregated", "Kiwi")
    /\ Assignable("segregated", "Kiwi", "CanWalk")
    /\ ~Assignable("segregated", "Kiwi", "CanFly")
    /\ \A i \in 1 .. Len(birdCalls) :
           LET c == birdCalls[i] IN
           c.example = "segregated" =>
               /\ c.outcome.kind = "returned"
               /\ c.class = "Kiwi" => c.method = "walk"

\* a Kiwi was used as a CanWalk, and a Tui as a CanWalk and as a CanFly
C8_Witness ==
    /\ Len(birdCalls) = 3
    /\ \A i \in 1 .. 3 : birdCalls[i].example = "segregated"
    /\ birdCalls[1].class = "Kiwi" /\ birdCalls[1].type = "CanWalk"
    /\ birdCalls[1].method = "walk" /\ birdCalls[1].outcome.kind = "returned"
    /\ birdCalls[2].class = "Tui" /\ birdCalls[2].type = "CanWalk"
    /\ birdCalls[3].class = "Tui" /\ birdCalls[3].type = "CanFly"
    /\ birdCalls[3].method = "fly"

(***************************************************************************)
(* Claims about the CoffeeMachine, checked under CoffeeSpec (safety) and   *)
(* CoffeeLiveSpec (the event loop runs what is due).                       *)
(***************************************************************************)
\* the lines the five iterations write, in order, for each class
ExpectedBrewLines ==
    IF machine.version = "plain"
    THEN <<"Brewing...", "Brewing...", "Brewing...", "Brewing...", "Brewing...">>
    ELSE <<"Heating element", "Pumping water", "Pre-infusion",
           "Increasing pumping pressure", "Turning off pump and heating element">>

\* the lines of a call that are neither the start line nor the finished line
BrewLinesOf(c) == SelectSeq(c.log, LAMBDA l : l # StartLine(c.cups) /\ l # FinishedLine)

\* the call has left the brewing loop
BrewingOver(c) == c.pc \in {"brewReturned", "done"}

\* C9: the iterations of one call are strictly sequential: the k-th line of
\* the loop is the k-th expected line, at most one timer is outstanding, the
\* line of iteration k + 1 is written only when k timers have fired, and the
\* loop is left after exactly five lines and five fired timers.
C9_FiveSequentialIterations ==
    \A id \in CallId :
        LET c == calls[id]
            b == BrewLinesOf(c)
        IN  /\ Len(b) <= 5
            /\ \A k \in 1 .. Len(b) : b[k] = ExpectedBrewLines[k]
            /\ Len(b) = c.timersSet
            /\ c.timersSet - c.timersFired \in {0, 1}
            /\ c.pc = "awaitTimer" <=> c.timersSet = c.timersFired + 1
            /\ BrewingOver(c) => (Len(b) = 5 /\ c.timersFired = 5)
            /\ c.pc \in {"awaitTimer", "timerFired"} => Len(b) >= 1

\* on the machine with named steps one call is over with all five steps and
\* another is in its third iteration, waiting for its timer
C9_Witness ==
    /\ machine.version = "steps"
    /\ calls[1].pc = "done"
    /\ BrewLinesOf(calls[1]) = ExpectedBrewLines
    /\ calls[2].pc = "awaitTimer"
    /\ BrewLinesOf(calls[2]) = <<"Heating element", "Pumping water", "Pre-infusion">>
    /\ calls[2].timersFired = 2

\* what C10 says of every state of a call: the start line comes first, the
\* finished line is written at most once, as the last line, and only when the
\* fifth timer has fired and the call is over
C10_StartFirstFinishedLast ==
    \A id \in CallId :
        LET c == calls[id]
            finished == {i \in 1 .. Len(c.log) : c.log[i] = FinishedLine}
        IN  /\ c.pc # "notCalled" =>
                (c.cups \in Cups /\ Len(c.log) >= 2 /\ c.log[1] = StartLine(c.cups))
            /\ \A i \in 2 .. Len(c.log) : c.log[i] # StartLine(c.cups)
            /\ Cardinality(finished) <= 1
            /\ finished # {} =>
                (finished = {Len(c.log)} /\ c.timersFired = 5 /\ Len(c.log) = 7)
            /\ c.pc = "done" <=> finished # {}

\* C10: every call of MakeCoffee(1) or MakeCoffee(2) writes the start line
\* before any brewing line and the finished line once, after the fifth timer;
\* and, the event loop firing every timer, every call made is eventually over.
C10_MakeCoffeeTerminates ==
    /\ []C10_StartFirstFinishedLast
    /\ \A id \in CallId : (calls[id].pc # "notCalled") ~> (calls[id].pc = "done")

\* a call for one cup and a call for two cups are both over
C10_Witness ==
    /\ calls[1].pc = "done" /\ calls[1].cups = 1
    /\ calls[1].log[1] = "Starting to make coffee using 1 cups"
    /\ calls[1].log[7] = "Coffee has finished brewing"
    /\ calls[2].pc = "done" /\ calls[2].cups = 2
    /\ calls[2].log[1] = "Starting to make coffee using 2 cups"

\* all the lines of a finished call for the given number of cups
FullLog(cups) == <<StartLine(cups)>> \o ExpectedBrewLines \o <<FinishedLine>>

\* the call has been made and is not over
Running(c) == c.pc \notin {"notCalled", "done"}

\* what C17 says of every state: whatever the other calls have done, the
\* lines of a call are the first lines of its own full log: its start line,
\* its steps in index order, and its finished line after its fifth step
C17_OwnLinesInOrder ==
    \A id \in CallId :
        LET c == calls[id] IN
        c.pc # "notCalled" =>
            /\ Len(c.log) <= 7
            /\ c.log = SubSeq(FullLog(c.cups), 1, Len(c.log))
            /\ c.pc = "done" <=> Len(c.log) = 7

\* what C17 says of every step: it is a step of one call, which writes at
\* most one line to the end of its log, and it changes neither another call
\* nor the machine
C17_StepOfOneCall ==
    /\ machine' = machine
    /\ \A id, other \in CallId :
           (calls'[id] # calls[id] /\ other # id) => calls'[other] = calls[other]
    /\ \A id \in CallId :
           calls[id].pc # "notCalled" =>
               /\ calls'[id].cups = calls[id].cups
               /\ \/ calls'[id].log = calls[id].log
                  \/ /\ Len(calls'[id].log) = Len(calls[id].log) + 1
                     /\ SubSeq(calls'[id].log, 1, Len(calls[id].log)) = calls[id].log

\* C17: calls of MakeCoffee that overlap on one machine share no mutable
\* state: under every interleaving of their timers each call writes its own
\* start line, its five steps in index order and then its finished line, and
\* no step of one call changes another call or the machine.
C17_OverlappingCallsAreIndependent ==
    /\ []C17_OwnLinesInOrder
    /\ [][C17_StepOfOneCall]_vars

\* two calls overlap on the machine with named steps: the call for one cup
\* waits for the timer of its fifth step, the call for two cups, made while
\* the first was brewing, for the timer of its third
C17_Witness ==
    /\ machine.version = "steps"
    /\ Running(calls[1]) /\ calls[1].cups = 1
    /\ calls[1].pc = "awaitTimer" /\ calls[1].log = SubSeq(FullLog(1), 1, 6)
    /\ Running(calls[2]) /\ calls[2].cups = 2
    /\ calls[2].pc = "awaitTimer" /\ calls[2].log = SubSeq(FullLog(2), 1, 4)

=============================================================================
